---- MODULE Spec2Model ----
(***************************************************************************)
(* A model of commons/morse (symbols.go): the Latin Morse codec            *)
(* (CodeToText, TextToCode over the tables built by init) and the          *)
(* streaming Monitor (Monitor.Read = prev(next(signal)) over the rolling   *)
(* sample buffer and the target table), with Decoder.Read and              *)
(* Decoder.search underneath it.                                           *)
(*                                                                         *)
(* Abstractions.  Samples are not modelled by value: the rolling buffer is *)
(* its length, and what one block makes of the spectrogram is an input of  *)
(* the read: the accumulated power vector dist that Decoder.Read hands to  *)
(* search, and the set of bins whose envelope Decoder.detect decodes to a  *)
(* non-empty code.  An envelope (Message.Data) is the sequence of the      *)
(* frames it was taken from, each named by its place in the buffer of the  *)
(* read that took it.  A code is the empty string or NonEmpty(data), the   *)
(* code read from the envelope data.                                       *)
(* A Go string of the codec is a sequence of one-character strings.        *)
(***************************************************************************)
EXTENDS Integers, Sequences, FiniteSets, TLC

(***************************************************************************)
(* Bounds of the model.                                                    *)
(***************************************************************************)
\* A target is followed until it has produced a decode in MaxLife cycles.
MaxLife == 2
\* The rolling buffer is followed up to MaxBuffer samples after a read.
MaxBuffer == 10
\* The largest MaxMiss among the configurations.
MaxMissBound == 2
\* The longest code string handed to CodeToText.
MaxCode == 5
\* The longest text handed to TextToCode.
MaxText == 2
\* The most lines of a table handed to init.
MaxLines == 3
\* The longest power vector handed to Decoder.search on its own.
MaxBins == 5
\* The latest frame at which a step of an envelope begins.
MaxTime == 6
\* The most steps after the first one of an envelope.
MaxSteps == 3

\* Decoder.Loud of DefaultMonitor, 0.01, as LoudNum / LoudDen.
LoudNum == 1
LoudDen == 100

\* The least mean duration, in frames, of a credible dot.
MIN_RELIABLE_DOT == 2

VARIABLES
    cfg,        \* the Monitor's configuration (MaxHold, MaxMiss, MaxBand, Decoder)
    samples,    \* len(m.samples)
    targets,    \* m.targets
    status,     \* "new", "returned" or "panic": how the last Monitor.Read ended
    signal,     \* len(signal) of the last Monitor.Read
    wide,       \* what extra.Read(m.samples) yielded in the last Monitor.Read
    latest,     \* what m.next(signal) returned in the last Monitor.Read
    origin,     \* origin[k]: the index in wide of the detection latest[k] came from
    silent,     \* per freq of the table: consecutive reads with no fresh detection
    resumed,    \* the freqs the last read detected again after one miss or more
    seen,       \* per freq of the table: the reads that emitted it since it entered
    streak,     \* per freq of the table: the reads in a row, up to the last one
                \* that emitted it, that emitted it
    fn,         \* the codec operation last called
    input,      \* its argument
    middle,     \* a round trip's intermediate code
    output      \* its result

monitorVars == <<cfg, samples, targets, status, signal, wide, latest, origin,
                 silent, resumed, seen, streak>>
codecVars == <<fn, input, middle, output>>
vars == <<monitorVars, codecVars>>

(***************************************************************************)
(* Helpers over sequences.                                                 *)
(***************************************************************************)
RECURSIVE Sum64(_)
Sum64(s) == IF s = <<>> THEN 0 ELSE Head(s) + Sum64(Tail(s))

RECURSIVE Concat(_)
Concat(ss) == IF ss = <<>> THEN <<>> ELSE Head(ss) \o Concat(Tail(ss))

Freqs(ms) == {ms[i].Freq : i \in DOMAIN ms}

(***************************************************************************)
(* Configurations.  DefaultMonitor sets MaxHold = 2 * rate, MaxMiss = 5,   *)
(* MaxBand = 3, Bias = 5, Band = 0, FrameShift = rate / 100 and            *)
(* FrameLen = 2048; the fields are public, so a caller may set any of      *)
(* them.  The model runs scaled-down configurations: frames of FrameLen    *)
(* samples, hops of FrameShift samples and FrameLen / 2 bins.              *)
(***************************************************************************)
Holds == {9}
Bands == {0, 1}
Biases == {0, 1}

Configs ==
    {[MaxHold |-> h, MaxMiss |-> mm, MaxBand |-> b,
      Decoder |-> [Bias |-> bi, Band |-> 0, FrameShift |-> 2, FrameLen |-> 8]] :
        h \in Holds, mm \in 0..MaxMissBound, b \in Bands, bi \in Biases}

\* The block lengths a caller pushes: none, less than a hop (and no multiple
\* of it), a hop, a frame (with what the buffer holds, more than MaxHold).
SignalLens == {0, 1, 2, 8}

\* The power accumulated on one bin over a block of at least one frame: faint
\* (noise, or the leakage of a carrier nearby) or a carrier.
Levels == {1, 200}

\* A non-empty Message.Code, whatever text it holds: the code that
\* Decoder.detect reads from the envelope data.  The empty code is <<>>.
NonEmpty(data) == <<data>>

(***************************************************************************)
(* Message (lines 85-92) and the zero Message of Go.                       *)
(***************************************************************************)
Message(data, code, freq, life, miss, side) ==
    [Data |-> data, Code |-> code, Freq |-> freq, Life |-> life,
     Miss |-> miss, side |-> side]

clip(x, min, max) ==
    LET y == IF x < min THEN min ELSE x
    IN  IF y > max THEN max ELSE y

(***************************************************************************)
(* Decoder.detect: a fresh Message holding a copy of the envelope and its  *)
(* decode; every other field is Go's zero value.  Whether binary and the   *)
(* duration mixture accept the envelope is the input decodes.              *)
(***************************************************************************)
detect(data, decodes) ==
    Message(data, IF decodes THEN NonEmpty(data) ELSE <<>>, 0, 0, 0, FALSE)

(***************************************************************************)
(* Decoder.search: idx, pos are the 0-based indices of the code.           *)
(* val < lev and top > lev with lev = Loud * Sum64(spectrum), over         *)
(* integers: val * LoudDen < LoudNum * sum.                                *)
(***************************************************************************)
\* searchFrom without lines 162-163: top and pos are kept after a commit.
RECURSIVE searchFromKeeps(_, _, _, _, _, _)
searchFromKeeps(d, spectrum, idx, top, pos, result) ==
    IF idx >= Len(spectrum) THEN result
    ELSE LET val == spectrum[idx + 1]
             sum == Sum64(spectrum)
         IN  IF val > top
             THEN searchFromKeeps(d, spectrum, idx + 1, val, idx, result)
             ELSE IF val * LoudDen < LoudNum * sum /\ top * LoudDen > LoudNum * sum
                  THEN searchFromKeeps(d, spectrum, idx + 1, top, pos,
                                       Append(result, d.Bias + pos))
                  ELSE searchFromKeeps(d, spectrum, idx + 1, top, pos, result)

RECURSIVE searchFrom(_, _, _, _, _, _)
searchFrom(d, spectrum, idx, top, pos, result) ==
    IF idx >= Len(spectrum) THEN result
    ELSE LET val == spectrum[idx + 1]
             sum == Sum64(spectrum)
         IN  IF val > top
             THEN searchFrom(d, spectrum, idx + 1, val, idx, result)
             ELSE IF val * LoudDen < LoudNum * sum /\ top * LoudDen > LoudNum * sum
                  THEN searchFrom(d, spectrum, idx + 1, 0, 0,
                                  Append(result, d.Bias + pos))
                  ELSE searchFrom(d, spectrum, idx + 1, top, pos, result)

search(d, spectrum) == searchFrom(d, spectrum, 0, 0, 0, <<>>)

(***************************************************************************)
(* Decoder.Read from the search on: buff is the envelope's frames, dist    *)
(* the accumulated power vector and keyed the bins whose envelope detect   *)
(* decodes.  The envelope is read on bin clip(idx + n, 0, len(dist) - 1);  *)
(* Freq is idx + n.                                                        *)
(***************************************************************************)
DecoderRead(d, buff, dist, keyed) ==
    LET bins == d.FrameLen \div 2
        at(idx, n) ==
            LET m == detect(buff, clip(idx + n, 0, bins - 1) \in keyed)
            IN  IF m.Code # <<>>
                THEN <<[m EXCEPT !.side = (n # 0), !.Freq = idx + n]>>
                ELSE <<>>
        around(idx) == Concat([k \in 1..(2 * d.Band + 1) |-> at(idx, k - d.Band - 1)])
        found == search(d, dist)
    IN  Concat([c \in 1..Len(found) |-> around(found[c])])

(***************************************************************************)
(* The STFT of github.com/r9y9/gossp, which is not part of the source:     *)
(* a buffer of n >= FrameLen samples yields                                *)
(* (n - FrameLen) div FrameShift + 1 frames.  What it does with a shorter  *)
(* buffer is left open: MonitorRead takes either no frame or a failure.    *)
(***************************************************************************)
NumFrames(d, n) ==
    IF n >= d.FrameLen THEN (n - d.FrameLen) \div d.FrameShift + 1 ELSE 0

\* The envelope of the buffer on one bin: its n frames, in order.
Envelope(n) == [t \in 1..n |-> t]

\* The power vectors a buffer of n frames can give: len(dist) = FrameLen / 2,
\* filled on its first FrameLen / 2 - Bias entries (lines 175-180).
Dists(d, n) ==
    LET bins == d.FrameLen \div 2
        filled == IF n = 0 THEN 0 ELSE bins - d.Bias
    IN  {[i \in 1..bins |-> IF i <= filled THEN level[i] ELSE 0] :
            level \in [1..filled -> Levels]}

\* The bins Decoder.Read takes an envelope from, given dist.
Probed(d, dist) ==
    LET found == search(d, dist)
    IN  {clip(found[c] + n, 0, d.FrameLen \div 2 - 1) :
            c \in 1..Len(found), n \in (0 - d.Band)..d.Band}

\* The sets of bins on which detect decodes a non-empty code, given dist: detect
\* decides nothing about a bin it is not called on.
Keyed(d, dist) == SUBSET Probed(d, dist)

(***************************************************************************)
(* Monitor.next.  merge is the body of the test at lines 235-241 for one   *)
(* prior target; drop outside 0..len(next.Data) is Go's slice-bounds       *)
(* panic at next.Data[drop:].  mergeAll is the loop over m.targets (every  *)
(* target is visited, and next is the merged message from the first match  *)
(* on); redecodes holds the indices of the targets whose merged envelope   *)
(* the narrow decoder decodes to a non-empty code.                         *)
(***************************************************************************)
dropOf(next, signalLen) ==
    Len(next.Data) - (signalLen \div cfg.Decoder.FrameShift)

\* merge with the target's Miss kept on the merged message.
mergeKeepsMiss(next, prev, signalLen, decodes) ==
    LET drop == dropOf(next, signalLen)
        data == prev.Data \o SubSeq(next.Data, drop + 1, Len(next.Data))
    IN  [detect(data, decodes) EXCEPT !.Freq = prev.Freq, !.Life = prev.Life,
                                      !.Miss = prev.Miss]

\* merge without line 240: the merged message starts a life of its own.
mergeForgetsLife(next, prev, signalLen, decodes) ==
    LET drop == dropOf(next, signalLen)
        data == prev.Data \o SubSeq(next.Data, drop + 1, Len(next.Data))
    IN  [detect(data, decodes) EXCEPT !.Freq = prev.Freq]

\* merge with next.Data appended whole, not from drop on.
mergeWhole(next, prev, signalLen, decodes) ==
    LET data == prev.Data \o next.Data
    IN  [detect(data, decodes) EXCEPT !.Freq = prev.Freq, !.Life = prev.Life]

merge(next, prev, signalLen, decodes) ==
    LET drop == dropOf(next, signalLen)
        data == prev.Data \o SubSeq(next.Data, drop + 1, Len(next.Data))
    IN  [detect(data, decodes) EXCEPT !.Freq = prev.Freq, !.Life = prev.Life]

RECURSIVE mergeAll(_, _, _, _)
mergeAll(i, next, signalLen, redecodes) ==
    IF i > Len(targets) THEN [msg |-> next, ok |-> TRUE]
    ELSE IF next.Freq = targets[i].Freq
         THEN IF dropOf(next, signalLen) \notin 0..Len(next.Data)
              THEN [msg |-> next, ok |-> FALSE]
              ELSE mergeAll(i + 1, merge(next, targets[i], signalLen, i \in redecodes),
                            signalLen, redecodes)
         ELSE mergeAll(i + 1, next, signalLen, redecodes)

\* emit without the test of line 243.
emitAll(next) == <<[next EXCEPT !.Life = @ + 1]>>

\* emit with the test of line 243 turned around.
emitSides(next) == IF next.side THEN <<[next EXCEPT !.Life = @ + 1]>> ELSE <<>>

\* emit without line 244: the cycle is not counted.
emitUncounted(next) == IF ~next.side THEN <<next>> ELSE <<>>

\* Lines 243-246: a message that is not a side detection counts one more cycle
\* and is emitted.
emit(next) == IF ~next.side THEN <<[next EXCEPT !.Life = @ + 1]>> ELSE <<>>

\* The loop over the wide decoder's detections from the k-th on: the messages
\* emitted, the detection each came from, and whether no merge panicked.
RECURSIVE nextFrom(_, _, _, _)
nextFrom(k, detections, signalLen, redecodes) ==
    IF k > Len(detections) THEN [result |-> <<>>, origin |-> <<>>, ok |-> TRUE]
    ELSE LET one == mergeAll(1, detections[k], signalLen, redecodes)
             out == emit(one.msg)
             rest == nextFrom(k + 1, detections, signalLen, redecodes)
         IN  IF ~one.ok THEN [result |-> <<>>, origin |-> <<>>, ok |-> FALSE]
             ELSE [result |-> out \o rest.result,
                   origin |-> [j \in 1..Len(out) |-> k] \o rest.origin,
                   ok |-> rest.ok]

next(detections, signalLen, redecodes) == nextFrom(1, detections, signalLen, redecodes)

(***************************************************************************)
(* Monitor.prev: the prior targets that latest misses, each counted one    *)
(* more miss while Miss < MaxMiss, appended to latest.                     *)
(***************************************************************************)
\* missed with prev.Miss <= m.MaxMiss at line 259.
missedLate(p, latestMsgs) ==
    LET miss == \A k \in DOMAIN latestMsgs : latestMsgs[k].Freq # p.Freq
    IN  IF miss /\ p.Miss <= cfg.MaxMiss THEN <<[p EXCEPT !.Miss = @ + 1]>> ELSE <<>>

\* missed without the test of prev.Miss at line 259.
missedUnbounded(p, latestMsgs) ==
    LET miss == \A k \in DOMAIN latestMsgs : latestMsgs[k].Freq # p.Freq
    IN  IF miss THEN <<[p EXCEPT !.Miss = @ + 1]>> ELSE <<>>

missed(p, latestMsgs) ==
    LET miss == \A k \in DOMAIN latestMsgs : latestMsgs[k].Freq # p.Freq
    IN  IF miss /\ p.Miss < cfg.MaxMiss THEN <<[p EXCEPT !.Miss = @ + 1]>> ELSE <<>>

prev(latestMsgs) ==
    latestMsgs \o Concat([i \in 1..Len(targets) |-> missed(targets[i], latestMsgs)])

(***************************************************************************)
(* Monitor.Read: the buffer grows by the block and, when it is longer than *)
(* MaxHold, loses len(signal) / shift * shift samples at its head.         *)
(***************************************************************************)
trim(length, signalLen) ==
    IF length > cfg.MaxHold
    THEN (signalLen \div cfg.Decoder.FrameShift) * cfg.Decoder.FrameShift
    ELSE 0

\* The silent reads of each target of the table after a read that found fresh.
Silent(table, fresh) ==
    [f \in Freqs(table) |->
        IF f \in Freqs(fresh) THEN 0
        ELSE (IF f \in DOMAIN silent THEN silent[f] ELSE 0) + 1]

\* The reads that emitted each freq of the table since it entered the table.
Seen(table, emitted) ==
    [f \in Freqs(table) |->
        IF f \in Freqs(emitted)
        THEN (IF f \in DOMAIN seen THEN seen[f] ELSE 0) + 1
        ELSE seen[f]]

\* The reads in a row that emitted each freq of the table, up to the last one
\* that did: a read that emits a freq after a silent one starts again at 1.
Streak(table, emitted) ==
    [f \in Freqs(table) |->
        IF f \in Freqs(emitted)
        THEN (IF f \in DOMAIN streak /\ silent[f] = 0 THEN streak[f] ELSE 0) + 1
        ELSE streak[f]]

MonitorInit ==
    /\ cfg \in Configs
    /\ samples = 0
    /\ targets = <<>>
    /\ status = "new"
    /\ signal = 0
    /\ wide = <<>>
    /\ latest = <<>>
    /\ origin = <<>>
    /\ silent = <<>>
    /\ resumed = {}
    /\ seen = <<>>
    /\ streak = <<>>

\* The targets a detection is merged with: the narrow decoder is called on
\* the envelopes of these alone.
Merging(detections) == {i \in DOMAIN targets : targets[i].Freq \in Freqs(detections)}

\* The read returns.
Returns(detections, found) ==
    /\ found.ok
    /\ status' = "returned"
    /\ wide' = detections
    /\ latest' = found.result
    /\ origin' = found.origin
    /\ \E result \in {prev(found.result)} :
          /\ targets' = result
          /\ silent' = Silent(result, detections)
          /\ seen' = Seen(result, found.result)
          /\ streak' = Streak(result, found.result)
    /\ resumed' = {targets[i].Freq : i \in {m \in Merging(detections) : targets[m].Miss > 0}}

\* The read panics: m.samples is already assigned, m.targets is not.
Panics(detections) ==
    /\ status' = "panic"
    /\ wide' = detections
    /\ latest' = <<>>
    /\ origin' = <<>>
    /\ resumed' = {}
    /\ UNCHANGED <<targets, silent, seen, streak>>

MonitorRead(signalLen) ==
    /\ status # "panic"
    /\ samples + signalLen - trim(samples + signalLen, signalLen) <= MaxBuffer
    /\ \A i \in DOMAIN targets : targets[i].Life < MaxLife
    /\ signal' = signalLen
    /\ UNCHANGED <<cfg, codecVars>>
    /\ LET cut == trim(samples + signalLen, signalLen)
           length == samples + signalLen - cut
           extra == [cfg.Decoder EXCEPT !.Band = cfg.MaxBand]
           frames == NumFrames(extra, length)
           \* The frames are those the last read analysed: the spectrogram,
           \* and so what the wide decoder yields, is the same.
           again == /\ status = "returned"
                    /\ cut = 0
                    /\ frames = NumFrames(extra, samples)
       IN  /\ samples' = length
           /\ \/ /\ length < extra.FrameLen
                 /\ ~(again /\ signalLen = 0)
                 /\ Panics(<<>>)
              \/ \E dist \in Dists(extra, frames) :
                 \E keyed \in Keyed(extra, dist) :
                 \E detections \in {DecoderRead(extra, Envelope(frames), dist, keyed)} :
                    /\ again => detections = wide
                    /\ \E redecodes \in SUBSET Merging(detections) :
                       \E found \in {next(detections, signalLen, redecodes)} :
                          \/ Returns(detections, found)
                          \/ ~found.ok /\ Panics(detections)

MonitorNext == \E signalLen \in SignalLens : MonitorRead(signalLen)

(***************************************************************************)
(* The codec.  morse is the embedded table latin.dat, which is not part of *)
(* the source: one line per glyph, the glyph first and its code after it   *)
(* (International Morse).  init reads it line by line into reverse and     *)
(* forward; a later line overwrites an earlier one with the same key.      *)
(***************************************************************************)
morse ==
    << <<"E", ".">>, <<"T", "-">>, <<"A", ".", "-">>, <<"N", "-", ".">>,
       <<"S", ".", ".", ".">>, <<"O", "-", "-", "-">> >>

\* map[key] = value of a Go map.
put(map, key, value) ==
    [k \in DOMAIN map \cup {key} |-> IF k = key THEN value ELSE map[k]]

RECURSIVE initFrom(_, _, _, _)
initFrom(lines, i, rev, fwd) ==
    IF i > Len(lines) THEN [reverse |-> rev, forward |-> fwd, ok |-> TRUE]
    ELSE LET val == lines[i]
         IN  IF val = <<>>
             THEN [reverse |-> rev, forward |-> fwd, ok |-> FALSE]
             ELSE initFrom(lines, i + 1, put(rev, Tail(val), Head(val)),
                           put(fwd, Head(val), Tail(val)))

init == initFrom(morse, 1, <<>>, <<>>)

reverse == init.reverse
forward == init.forward

\* strings.Split(s, sep) for a one-character sep: the pieces between the
\* separators, an empty piece included; one piece, s itself, when s has none.
RECURSIVE splitFrom(_, _, _, _)
splitFrom(s, sep, i, piece) ==
    IF i > Len(s) THEN <<piece>>
    ELSE IF s[i] = sep
         THEN <<piece>> \o splitFrom(s, sep, i + 1, <<>>)
         ELSE splitFrom(s, sep, i + 1, Append(piece, s[i]))

Split(s, sep) == splitFrom(s, sep, 1, <<>>)

\* lookup without the else branch of lines 36-38.
lookupSkips(token) ==
    IF token \in DOMAIN reverse THEN <<reverse[token]>> ELSE <<>>

\* Lines 34-38: the glyph of a token, or "?".
lookup(token) ==
    IF token \in DOMAIN reverse THEN <<reverse[token]>> ELSE <<"?">>

CodeToText(code) ==
    LET tokens == Split(code, " ")
    IN  Concat([i \in 1..Len(tokens) |-> lookup(tokens[i])])

\* forward[s] of a Go map: the zero value "" for a missing key.
coded(s) == IF s \in DOMAIN forward THEN forward[s] ELSE <<>>

\* TextToCode without result[1:] at line 51.
TextToCodeUnstripped(text) ==
    Concat([i \in 1..Len(text) |-> <<" ">> \o coded(text[i])])

TextToCode(text) ==
    LET result == Concat([i \in 1..Len(text) |-> <<" ">> \o coded(text[i])])
    IN  IF result # <<>> THEN Tail(result) ELSE result

\* The strings of at most n characters of alphabet.
RECURSIVE Strings(_, _)
Strings(alphabet, n) ==
    IF n = 0 THEN {<<>>}
    ELSE LET shorter == Strings(alphabet, n - 1)
         IN  shorter \cup {Append(s, c) : s \in shorter, c \in alphabet}

\* The characters of the texts: the glyphs of the table and one that is not.
Glyphs == {morse[i][1] : i \in DOMAIN morse}
Texts == Strings(Glyphs \cup {"#"}, MaxText)
Codes == Strings({".", "-", " "}, MaxCode)

CodecIdle ==
    /\ fn = "none"
    /\ input = <<>>
    /\ middle = <<>>
    /\ output = <<>>

CallCodeToText(code) ==
    /\ fn' = "CodeToText"
    /\ input' = code
    /\ middle' = <<>>
    /\ output' = CodeToText(code)
    /\ UNCHANGED monitorVars

CallTextToCode(text) ==
    /\ fn' = "TextToCode"
    /\ input' = text
    /\ middle' = <<>>
    /\ output' = TextToCode(text)
    /\ UNCHANGED monitorVars

\* CodeToText(TextToCode(text)).
CallRoundTrip(text) ==
    /\ fn' = "RoundTrip"
    /\ input' = text
    /\ middle' = TextToCode(text)
    /\ output' = CodeToText(TextToCode(text))
    /\ UNCHANGED monitorVars

CodecNext ==
    \/ \E code \in Codes : CallCodeToText(code)
    \/ \E text \in Texts : CallTextToCode(text)
    \/ \E text \in Texts : CallRoundTrip(text)

(***************************************************************************)
(* init on any table.  A line of the scanner is a string without its line  *)
(* end; val[1:] and val[0] of an empty line are Go's run-time panics.      *)
(***************************************************************************)
TableLines == {<<>>, <<"E">>, <<"E", ".">>, <<"T", "-">>, <<"A", ".", "-">>}
Tables == Strings(TableLines, MaxLines)

CallInit(lines) ==
    /\ fn' = "init"
    /\ input' = lines
    /\ middle' = <<>>
    /\ output' = initFrom(lines, 1, <<>>, <<>>)
    /\ UNCHANGED monitorVars

TableNext == \E lines \in Tables : CallInit(lines)

(***************************************************************************)
(* Decoder.search on any power vector.                                     *)
(***************************************************************************)
Spectra == Strings(Levels \cup {0}, MaxBins)

CallSearch(bias, spectrum) ==
    /\ fn' = "search"
    /\ input' = [Bias |-> bias, spectrum |-> spectrum]
    /\ middle' = <<>>
    /\ output' = search([Bias |-> bias], spectrum)
    /\ UNCHANGED monitorVars

SearchNext ==
    \E bias \in Biases : \E spectrum \in Spectra : CallSearch(bias, spectrum)

(***************************************************************************)
(* Decoder.detect from the steps on (lines 127-148).  The steps come from  *)
(* means.steps(), which is not part of the source: a step is a frame at   *)
(* which the key changes state, with the flag down that lines 131 and 141  *)
(* read, the first step at frame 0.  The mixture over the                  *)
(* tones is an input: mean2 is twice the smaller of its two means, each    *)
(* the mean of some of the tones.  A symbol of the code is what s.tone or  *)
(* s.mute gives for a step: its kind and the span it was classified by.    *)
(***************************************************************************)
RECURSIVE Ascending(_)
Ascending(times) ==
    IF times = {} THEN <<>>
    ELSE LET first == CHOOSE t \in times : \A u \in times : t <= u
         IN  <<first>> \o Ascending(times \ {first})

\* The steps at the frames times, the key changing state at each, from the
\* state down on.
RECURSIVE Alternating(_, _)
Alternating(times, down) ==
    IF times = <<>> THEN <<>>
    ELSE <<[time |-> Head(times), down |-> down]>> \o Alternating(Tail(times), ~down)

StepLists ==
    {<<>>} \cup
    {Alternating(<<0>> \o Ascending(times), begins) :
        times \in {ts \in SUBSET (1..MaxTime) : Cardinality(ts) <= MaxSteps},
        begins \in BOOLEAN}

\* span with steps[0] for steps[idx]: every span counted from the first step.
spanFromFirst(steps, i) == steps[i].time - steps[1].time

\* Line 130 for the step s = steps[i], i >= 2: s.time - steps[idx].time, where
\* idx counts from 0 over steps[1:], so that steps[idx] is the step before s.
span(steps, i) == steps[i].time - steps[i - 1].time

\* Lines 127-135: the spans of the steps of steps[1:] that have down set.
tones(steps) ==
    Concat([i \in 1..Len(steps) |->
               IF i >= 2 /\ steps[i].down THEN <<span(steps, i)>> ELSE <<>>])

\* Lines 141-145: what one step of steps[1:] adds to the code.
symbol(steps, i) ==
    [kind |-> IF steps[i].down THEN "tone" ELSE "mute", span |-> span(steps, i)]

\* Lines 136-148: the code, given twice the smaller mean of the mixture.
detectCode(steps, mean2) ==
    IF Len(tones(steps)) >= 1 /\ mean2 > 2 * MIN_RELIABLE_DOT
    THEN Concat([i \in 1..(Len(steps) - 1) |-> <<symbol(steps, i + 1)>>])
    ELSE <<>>

\* Twice the smaller mean of a mixture over tones: between the shortest and
\* the longest of them.
Means2(ts) ==
    IF ts = <<>> THEN {0}
    ELSE LET short == CHOOSE x \in {ts[i] : i \in DOMAIN ts} : \A i \in DOMAIN ts : x <= ts[i]
             long == CHOOSE x \in {ts[i] : i \in DOMAIN ts} : \A i \in DOMAIN ts : x >= ts[i]
         IN  (2 * short)..(2 * long)

CallDetect(steps, mean2) ==
    /\ fn' = "detect"
    /\ input' = [steps |-> steps, mean2 |-> mean2]
    /\ middle' = <<>>
    /\ output' = [tones |-> tones(steps), code |-> detectCode(steps, mean2)]
    /\ UNCHANGED monitorVars

DetectNext ==
    \E steps \in StepLists : \E mean2 \in Means2(tones(steps)) :
        CallDetect(steps, mean2)

\* A Monitor nobody reads from, for the codec's specification.
MonitorIdle ==
    /\ cfg = [MaxHold |-> 9, MaxMiss |-> MaxMissBound, MaxBand |-> 1,
              Decoder |-> [Bias |-> 1, Band |-> 0, FrameShift |-> 2, FrameLen |-> 8]]
    /\ samples = 0
    /\ targets = <<>>
    /\ status = "new"
    /\ signal = 0
    /\ wide = <<>>
    /\ latest = <<>>
    /\ origin = <<>>
    /\ silent = <<>>
    /\ resumed = {}
    /\ seen = <<>>
    /\ streak = <<>>

Init == MonitorInit /\ CodecIdle

Next == MonitorNext

\* The Monitor under every block length and every spectrogram.
Spec == Init /\ [][Next]_vars

InitCodec == MonitorIdle /\ CodecIdle

\* The codec under every code string and every text within the bounds.
SpecCodec == InitCodec /\ [][CodecNext]_vars

\* The codec's start-up under every table within the bounds.
SpecTable == InitCodec /\ [][TableNext]_vars

\* Decoder.search under every power vector within the bounds.
SpecSearch == InitCodec /\ [][SearchNext]_vars

\* Decoder.detect under every list of steps within the bounds.
SpecDetect == InitCodec /\ [][DetectNext]_vars

(***************************************************************************)
(* The claims.                                                             *)
(***************************************************************************)

\* C1: a target of the table that no fresh detection has the freq of counts
\* one more miss with every such read: its Miss is the number of consecutive
\* silent reads, and no target stays in the table (the returned sequence)
\* through MaxMiss + 1 consecutive silent reads.
C1_MissCountsSilentReads ==
    /\ DOMAIN silent = Freqs(targets)
    /\ \A i \in DOMAIN targets :
          /\ targets[i].Miss = silent[targets[i].Freq]
          /\ silent[targets[i].Freq] <= cfg.MaxMiss

\* A target carried through MaxMiss silent reads, one short of its eviction.
C1_Witness ==
    /\ status = "returned"
    /\ cfg.MaxMiss >= 2
    /\ \E i \in DOMAIN targets :
          targets[i].Miss = cfg.MaxMiss /\ silent[targets[i].Freq] = cfg.MaxMiss

C3_BufferWithinMaxHold == samples <= cfg.MaxHold

\* C4, as claimed: no returned message comes from a detection the wide decoder
\* made on a neighbour offset, merged or not.
C4_SideNeverReturned ==
    \A k \in DOMAIN latest : ~wide[origin[k]].side

\* C4, amended: a message returned for a neighbour-offset detection is the
\* merge of that detection into a target of the same freq that the table held
\* before the read: it has the target's freq and life + 1, its envelope starts
\* with the target's, and it is no side message; a neighbour-offset detection
\* whose freq no target has is not returned.
C4_SideReturnedOnlyMerged ==
    [][\A k \in DOMAIN latest' :
          wide'[origin'[k]].side =>
              \E i \in DOMAIN targets :
                  /\ targets[i].Freq = wide'[origin'[k]].Freq
                  /\ latest'[k].Freq = targets[i].Freq
                  /\ latest'[k].Life = targets[i].Life + 1
                  /\ Len(latest'[k].Data) >= Len(targets[i].Data)
                  /\ SubSeq(latest'[k].Data, 1, Len(targets[i].Data)) = targets[i].Data
                  /\ ~latest'[k].side]_vars

\* A read returned the merge of a neighbour-offset detection.
C4_Witness ==
    /\ status = "returned"
    /\ \E k \in DOMAIN latest : wide[origin[k]].side /\ latest[k].Life >= 2

\* C5, as claimed: while a freq stays in the table neither its life nor its
\* miss decreases from one read to the next.
C5_LifeAndMissNeverDecrease ==
    [][\A i \in DOMAIN targets : \A j \in DOMAIN targets' :
          targets'[j].Freq = targets[i].Freq =>
              /\ targets'[j].Life >= targets[i].Life
              /\ targets'[j].Miss >= targets[i].Miss]_vars

\* C5, amended: while a freq stays in the table its life never decreases; its
\* miss grows by one with a read that has no fresh detection of the freq and
\* is 0 after a read that has one.
C5_LifeGrowsMissResets ==
    [][status' = "returned" =>
          \A i \in DOMAIN targets : \A j \in DOMAIN targets' :
              targets'[j].Freq = targets[i].Freq =>
                  /\ targets'[j].Life >= targets[i].Life
                  /\ targets'[j].Miss =
                        IF targets[i].Freq \in Freqs(wide') THEN 0
                        ELSE targets[i].Miss + 1]_vars

\* A target that was missed and is detected again: its life has grown and its
\* miss is 0.
C5_Witness ==
    /\ status = "returned"
    /\ \E i \in DOMAIN targets :
          /\ targets[i].Freq \in resumed
          /\ targets[i].Life >= 2
          /\ targets[i].Miss = 0

\* C6: a read whose wide decoder detects, on a centre bin, the freq of a target
\* of the table returns for that detection a Message with the target's freq
\* and the target's life plus 1, so with life >= 2.
C6_MergedLifeIsPrevPlusOne ==
    [][status' = "returned" =>
          \A k \in DOMAIN wide' : \A i \in DOMAIN targets :
              (~wide'[k].side /\ wide'[k].Freq = targets[i].Freq) =>
                  \E j \in DOMAIN latest' :
                      /\ origin'[j] = k
                      /\ latest'[j].Freq = targets[i].Freq
                      /\ latest'[j].Life = targets[i].Life + 1
                      /\ latest'[j].Life >= 2]_vars

\* A carrier detected on its centre bin in two successive reads.
C6_Witness ==
    /\ status = "returned"
    /\ \E k \in DOMAIN latest : ~wide[origin[k]].side /\ latest[k].Life >= 2

\* C7: every Message of Decoder.Read (here the wide decoder's, Band = MaxBand)
\* and every Message Monitor.Read returns has freq >= 0.
C7_FreqNonNegative ==
    /\ \A k \in DOMAIN wide : wide[k].Freq >= 0
    /\ \A i \in DOMAIN targets : targets[i].Freq >= 0

\* C8: TextToCode("") is "" and CodeToText("") is "".
C8_EmptyToEmpty ==
    /\ (fn = "TextToCode" /\ input = <<>>) => output = <<>>
    /\ (fn = "CodeToText" /\ input = <<>>) => output = <<>>

\* C9: CodeToText(TextToCode(c)) = c for every character c of the table.
C9_RoundTrip ==
    (fn = "RoundTrip" /\ Len(input) = 1 /\ input[1] \in Glyphs) => output = input

\* The round trip of S through "...".
C9_Witness ==
    /\ fn = "RoundTrip"
    /\ input = <<"S">>
    /\ middle = <<".", ".", ".">>
    /\ output = <<"S">>

\* The places of the spaces of a string, and its i-th token: what lies between
\* the (i-1)-th and the i-th space.
Spaces(s) == {p \in 1..Len(s) : s[p] = " "}
SpaceAt(s, i) ==
    IF i = 0 THEN 0
    ELSE IF i > Cardinality(Spaces(s)) THEN Len(s) + 1
    ELSE CHOOSE p \in Spaces(s) : Cardinality({q \in Spaces(s) : q <= p}) = i
TokenAt(s, i) == SubSeq(s, SpaceAt(s, i - 1) + 1, SpaceAt(s, i) - 1)

\* The lines of the table whose code is token.
LinesOf(token) == {l \in DOMAIN morse : Tail(morse[l]) = token}

\* C10: CodeToText gives one character per token of its input split on single
\* spaces, in the tokens' order: the glyph of a token that is a code of the
\* table, "?" for any other, the empty token between two spaces included.
C10_OneCharPerToken ==
    fn = "CodeToText" =>
        /\ Len(output) = Cardinality(Spaces(input)) + 1
        /\ \A i \in 1..Len(output) :
              IF LinesOf(TokenAt(input, i)) = {}
              THEN output[i] = "?"
              ELSE \E l \in LinesOf(TokenAt(input, i)) : output[i] = Head(morse[l])

\* Two spaces in a row between two codes of the table.
C10_Witness ==
    /\ fn = "CodeToText"
    /\ input = <<".", " ", " ", "-">>
    /\ output = <<"E", "?", "T">>

\* C11: a Monitor.Read of a block of zero samples returns an empty sequence
\* and does not fail, whatever the buffer and the table hold; stated for a
\* buffer that holds a frame at least (what the STFT makes of a shorter one
\* is left open).
C11_EmptyBlockReturnsNothing ==
    (status # "new" /\ signal = 0 /\ samples >= cfg.Decoder.FrameLen) =>
        (status = "returned" /\ targets = <<>>)

\* C13: every target of the table (the sequence the last read returned) has
\* 0 <= miss <= MaxMiss.
C13_MissWithinMaxMiss ==
    \A i \in DOMAIN targets :
        targets[i].Miss >= 0 /\ targets[i].Miss <= cfg.MaxMiss

\* A table holding a target at its last allowed miss next to one just detected.
C13_Witness ==
    /\ status = "returned"
    /\ cfg.MaxMiss >= 1
    /\ \E i, j \in DOMAIN targets :
          targets[i].Miss = cfg.MaxMiss /\ targets[j].Miss = 0

\* C14, as claimed: the life of a target is the number of reads in a row, up
\* to the last one that detected it, in which it was detected: a target
\* detected again after a gap starts counting again.
C14_LifeIsStreak ==
    \A i \in DOMAIN targets :
        targets[i].Freq \in DOMAIN streak =>
            targets[i].Life = streak[targets[i].Freq]

\* C14, amended: the life of a target is the number of reads, since its freq
\* entered the table, that returned a detection of its freq; the reads that
\* missed it leave its life as it was.
C14_LifeCountsDetections ==
    /\ DOMAIN seen = Freqs(targets)
    /\ \A i \in DOMAIN targets : targets[i].Life = seen[targets[i].Freq]

\* A target detected, missed and detected again: life 2 after a streak of 1.
C14_Witness ==
    /\ status = "returned"
    /\ \E i \in DOMAIN targets :
          /\ targets[i].Freq \in resumed
          /\ targets[i].Life = 2
          /\ seen[targets[i].Freq] = 2
          /\ streak[targets[i].Freq] = 1

\* C15: a freq that the table did not hold before a read is in the table after
\* it only if the wide decoder yielded in that read a detection of that freq
\* on a centre bin (side = false).
C15_CreatedOnCentreOnly ==
    [][status' = "returned" =>
          \A j \in DOMAIN targets' :
              targets'[j].Freq \notin Freqs(targets) =>
                  \E k \in DOMAIN wide' :
                      ~wide'[k].side /\ wide'[k].Freq = targets'[j].Freq]_vars

\* A read that created a target and left aside a neighbour-offset detection
\* of a freq that no target has.
C15_Witness ==
    /\ status = "returned"
    /\ \E k \in DOMAIN wide : wide[k].side /\ wide[k].Freq \notin Freqs(targets)
    /\ \E i \in DOMAIN targets : targets[i].Life = 1 /\ targets[i].Miss = 0

\* C19: the Message a read returns for a detection merged into a target has
\* for envelope the target's envelope followed by the last
\* len(signal) / FrameShift frames of the detection's envelope, and for code
\* what detect reads from that whole envelope (or none).
C19_MergedEnvelope ==
    [][status' = "returned" =>
          \A j \in DOMAIN latest' : \A i \in DOMAIN targets :
              targets[i].Freq = latest'[j].Freq =>
                  LET fresh == wide'[origin'[j]].Data
                      tail == signal' \div cfg.Decoder.FrameShift
                  IN  /\ latest'[j].Data =
                            targets[i].Data \o
                            SubSeq(fresh, Len(fresh) - tail + 1, Len(fresh))
                      /\ latest'[j].Code \in {<<>>, NonEmpty(latest'[j].Data)}]_vars

\* A merge that appended the frame of a block of one hop or more and decoded
\* the whole envelope.
C19_Witness ==
    /\ status = "returned"
    /\ signal >= cfg.Decoder.FrameShift
    /\ \E j \in DOMAIN latest :
          /\ latest[j].Life >= 2
          /\ Len(latest[j].Data) >= 2
          /\ latest[j].Code = NonEmpty(latest[j].Data)

\* C20: in every merge the drop, the frames of the fresh envelope less
\* len(signal) / FrameShift, lies between 0 and the frames of the fresh
\* envelope, so that next.Data[drop:] does not fail.
C20_DropWithinEnvelope ==
    [][\A k \in DOMAIN wide' : \A i \in DOMAIN targets :
          wide'[k].Freq = targets[i].Freq =>
              /\ dropOf(wide'[k], signal') >= 0
              /\ dropOf(wide'[k], signal') <= Len(wide'[k].Data)]_vars

\* C12: the codec's start-up fails if and only if the table has a line
\* shorter than two characters: an empty line and a line that is a glyph with
\* no code both make it fail.
C12_FailsOnShortLine ==
    fn = "init" =>
        (~output.ok <=> \E i \in DOMAIN input : Len(input[i]) < 2)

\* The indices (from 1) of a power vector whose value is below lev, above lev.
Below(sp, x) == sp[x] * LoudDen < LoudNum * Sum64(sp)
Above(sp, x) == sp[x] * LoudDen > LoudNum * Sum64(sp)

\* The indices at which the search commits: a value below lev that follows a
\* value above lev with no value below lev in between.
Commits(sp) ==
    {c \in DOMAIN sp :
        /\ Below(sp, c)
        /\ \E q \in 1..(c - 1) :
              Above(sp, q) /\ \A x \in (q + 1)..(c - 1) : ~Below(sp, x)}

\* The index committed at c: the first place of the greatest value since the
\* commit before c.
Peak(sp, c) ==
    LET before == {b \in Commits(sp) : b < c}
        since == IF before = {} THEN 0
                 ELSE CHOOSE b \in before : \A a \in before : a <= b
        run == (since + 1)..(c - 1)
    IN  CHOOSE p \in run :
            /\ \A x \in run : sp[x] <= sp[p]
            /\ \A x \in run : x < p => sp[x] < sp[p]

\* C16: the search commits Bias + pos exactly at each index whose value is
\* below lev while the running maximum is above lev, pos being the place of
\* the greatest value since the commit before; the result is strictly
\* increasing, each committed place holds a value above lev, and a peak that
\* no value below lev follows is not committed.
C16_SearchCommits ==
    fn = "search" =>
        LET sp == input.spectrum
            at == Ascending(Commits(sp))
        IN  /\ Len(output) = Len(at)
            /\ \A k \in DOMAIN output :
                  /\ output[k] = input.Bias + Peak(sp, at[k]) - 1
                  /\ Above(sp, output[k] - input.Bias + 1)
                  /\ output[k] - input.Bias + 1 < at[k]
            /\ \A k \in DOMAIN output : k > 1 => output[k - 1] < output[k]

\* Two peaks, each followed by a value below lev, and a third at the end of
\* the vector: the first two are committed.
C16_Witness ==
    /\ fn = "search"
    /\ input = [Bias |-> 1, spectrum |-> <<200, 1, 200, 1, 200>>]
    /\ output = <<1, 3>>

C18_RejectsBelowReliableDot ==
    (fn = "detect" /\ output.tones # <<>>) =>
        (output.code = <<>> <=> input.mean2 < 2 * MIN_RELIABLE_DOT)

====
